---- MODULE Spec2Model ----
(***************************************************************************)
(* A model of the Polya-Gamma sampling kernel (pgm_common.h,               *)
(* pgm_devroye.c).                                                         *)
(*                                                                         *)
(* Doubles are modelled as fixed-point numbers: the integer v stands for   *)
(* the real v / Q.  Every arithmetic operation rounds toward zero to the   *)
(* grid, as a double operation rounds to the nearest double, so the        *)
(* effects of finite precision (absorption of a small addend, a product    *)
(* rounding to a bound, underflow to 0) exist in the model as they do in   *)
(* the program.                                                            *)
(***************************************************************************)
EXTENDS Integers, Sequences, FiniteSets

\* Resolution of the fixed-point grid: one unit is 1/Q.
Q == 1000

----------------------------------------------------------------------------
\* Fixed-point arithmetic (the operators of C on doubles)

Abs(v) == IF v < 0 THEN 0 - v ELSE v

Sgn(v) == IF v < 0 THEN 0 - 1 ELSE IF v > 0 THEN 1 ELSE 0

\* The operators below take their operands through a function of their own,
\* so that an operand is evaluated once however deep the expression it is.

\* n / d for integers, rounded toward zero
TDiv(n, d) ==
    LET div[p \in Int, q \in Int] == Sgn(p) * Sgn(q) * (Abs(p) \div Abs(q))
    IN  div[n, d]

\* a * b
FMul(a, b) ==
    LET mul[x \in Nat, y \in Nat] == (x \div Q) * y + ((x % Q) * y) \div Q
        smul[p \in Int, q \in Int] == Sgn(p) * Sgn(q) * mul[Abs(p), Abs(q)]
    IN  smul[a, b]

\* a / b, b # 0
FDiv(a, b) ==
    LET div[x \in Nat, y \in Nat] == (x \div y) * Q + ((x % y) * Q) \div y
        sdiv[p \in Int, q \in Int] == Sgn(p) * Sgn(q) * div[Abs(p), Abs(q)]
    IN  sdiv[a, b]

\* An integer count as a double.
FInt(k) == k * Q

\* The decimal num/den as a double (how a literal of the source is read).
Lit(num, den) ==
    Sgn(num) * ((Abs(num) \div den) * Q + ((Abs(num) % den) * Q) \div den)

RECURSIVE ISqrt(_, _, _)
ISqrt(v, lo, hi) ==
    IF lo >= hi THEN lo
    ELSE LET mid == (lo + hi + 1) \div 2
         IN  IF mid * mid <= v THEN ISqrt(v, mid, hi) ELSE ISqrt(v, lo, mid - 1)

\* sqrt(v), v >= 0
FSqrt(v) == ISqrt(v * Q, 0, 46340)

RECURSIVE ExpSeries(_, _, _, _)
\* sum of the Taylor terms r^j / j! from term j on, while they are not 0
ExpSeries(r, j, term, sum) ==
    IF term = 0 \/ j > 12 THEN sum
    ELSE LET prod == FMul(term, r)
         IN  ExpSeries(r, j + 1, Sgn(prod) * (Abs(prod) \div j), sum + term)

\* e^(-k) in millionths, k = 0, 1, ...; it is 0 from k = 15 on
ExpNegTable ==
    <<1000000, 367879, 135335, 49787, 18316, 6738, 2479, 912, 335, 123, 45, 17, 6, 2, 1>>

\* e^k in thousandths, k = 0 .. 6
ExpPosTable == <<1000, 2718, 7389, 20086, 54598, 148413, 403429>>

\* e^r for every fraction r of the grid, -1 < r < 1
ExpFrac == [r \in (1 - Q)..(Q - 1) |-> ExpSeries(r, 1, Q, 0)]

\* exp(y): e^k * e^r with k the whole part and r the fraction of y, rounded to
\* the nearest value of the grid
FExp(y) ==
    LET exp[v \in Int] ==
            LET k == Abs(v) \div Q
                ser == ExpFrac[Sgn(v) * (Abs(v) % Q)]
            IN  IF v < 0
                THEN IF k >= Len(ExpNegTable) THEN 0
                     ELSE (ExpNegTable[k + 1] * ser + 500000) \div 1000000
                ELSE (ExpPosTable[k + 1] * ser + 500) \div 1000
    IN  exp[y]

RECURSIVE LogNorm(_, _)
\* <<m, k>> with v = m * 2^k and 1 <= m < 2
LogNorm(v, k) ==
    IF v >= 2 * Q THEN LogNorm(v \div 2, k + 1)
    ELSE IF v < Q THEN LogNorm(v * 2, k - 1)
    ELSE <<v, k>>

\* log(v), v > 0: k log 2 + 2 atanh((m - 1) / (m + 1))
FLog(v) ==
    LET atanh[w \in Int] ==
            LET w2 == FMul(w, w)
                w3 == FMul(w2, w)
                w5 == FMul(w3, w2)
                w7 == FMul(w5, w2)
            IN  w + TDiv(w3, 3) + TDiv(w5, 5) + TDiv(w7, 7)
        log[mk \in Int \X Int] ==
            mk[2] * Lit(693147, 1000000) + 2 * atanh[FDiv(mk[1] - Q, mk[1] + Q)]
    IN  log[LogNorm(v, 0)]

----------------------------------------------------------------------------
\* Constants of the program

PGM_PI2 == Lit(9869604, 1000000)

PGM_PI2_8 == Lit(1233700, 1000000)

PGM_LOGPI_2 == Lit(451582, 1000000)

PGM_1_SQRTPI == Lit(564189, 1000000)

NPY_PI == Lit(3141592, 1000000)

NPY_PI_2 == Lit(1570796, 1000000)

\* 0.64, the truncation point (NPY_2_PI)
T == Lit(636619, 1000000)

\* DBL_EPSILON: the smallest step of the grid at 1
DBL_EPSILON == 1

PGM_GAMMA_LIMIT == 200

\* (size_t)-1, the value an unsigned 0 - 1 wraps to; it stands for 2^64 - 1
SIZE_MAX == 2147483647

\* DBL_MIN: the smallest positive value of the grid
DBL_MIN == 1

----------------------------------------------------------------------------
\* pgm_erfc

erfc_small_val == Lit(-6003636, 1000000)

erfc_big_val == Lit(26615717, 1000000)

\* The guard of the branch that calls pgm_erfc(-x).
ErfcRecurses(x) == ~(x < erfc_small_val) /\ x < 0 - DBL_EPSILON

\* A slip: the reflection about 1 in place of 2.
erfc_reflect_about_1(inner) == FInt(1) - inner

\* 2 - pgm_erfc(-x), inner being what the nested call returned
erfc_reflect(inner) == FInt(2) - inner

\* The body of pgm_erfc; inner is what the nested call pgm_erfc(-x) returned.
erfc_body(x, inner) ==
    IF x < erfc_small_val THEN FInt(2)
    ELSE IF x < 0 - DBL_EPSILON THEN erfc_reflect(inner)
    ELSE IF x < DBL_EPSILON THEN FInt(1)
    ELSE IF x < Lit(5, 10) THEN
        LET p0 == Lit(3209377, 1000)
            p1 == Lit(377485, 1000)
            p2 == Lit(113864, 1000)
            p3 == Lit(3161123, 1000000)
            p4 == Lit(185777, 1000000)
            q0 == Lit(2844236, 1000)
            q1 == Lit(1282616, 1000)
            q2 == Lit(244024, 1000)
            q3 == Lit(23601290, 1000000)
            z == FMul(x, x)
            num == FMul(FMul(FMul(FMul(p4, z) + p3, z) + p2, z) + p1, z) + p0
            den == FMul(FMul(FMul(z + q3, z) + q2, z) + q1, z) + q0
        IN  FInt(1) - FDiv(FMul(x, num), den)
    ELSE IF x < FInt(4) THEN
        LET p0 == Lit(7373888, 1000000)
            p1 == Lit(6865018, 1000000)
            p2 == Lit(3031799, 1000000)
            p3 == Lit(563169, 1000000)
            p4 == Lit(43, 1000000)
            q0 == Lit(7373960, 1000000)
            q1 == Lit(15184908, 1000000)
            q2 == Lit(12795529, 1000000)
            q3 == Lit(5354216, 1000000)
            num == FMul(FMul(FMul(FMul(p4, x) + p3, x) + p2, x) + p1, x) + p0
            den == FMul(FMul(FMul(x + q3, x) + q2, x) + q1, x) + q0
        IN  FDiv(FMul(FExp(FMul(0 - x, x)), num), den)
    ELSE IF x < erfc_big_val THEN
        LET z == FMul(x, x)
            y == FExp(0 - z)
            p0 == Lit(-42579, 1000000)
            p1 == Lit(-196068, 1000000)
            p2 == Lit(-51688, 1000000)
            q0 == Lit(150942, 1000000)
            q1 == Lit(921452, 1000000)
            zi == FDiv(FInt(1), z)
            zc == FMul(zi, FDiv(FMul(FMul(p2, zi) + p1, zi) + p0,
                                FMul(zi + q1, zi) + q0))
        IN  IF FMul(x, DBL_MIN) > FMul(y, PGM_1_SQRTPI) THEN 0
            ELSE FDiv(FMul(y, PGM_1_SQRTPI + zc), x)
    ELSE 0

RECURSIVE pgm_erfc(_)
pgm_erfc(x) == erfc_body(x, IF ErfcRecurses(x) THEN pgm_erfc(0 - x) ELSE 0)

\* The cumulative distribution function of an Inverse-Gaussian.
inverse_gaussian_cdf(x, mu, lambda) ==
    LET a == FSqrt(FDiv(FMul(Lit(5, 10), lambda), x))
        b == FMul(a, FDiv(x, mu))
        c == FExp(FDiv(lambda, mu))
    IN  FMul(Lit(5, 10), pgm_erfc(a - b) + FMul(FMul(c, pgm_erfc(b + a)), c))

----------------------------------------------------------------------------
\* Bounds of the model

\* engine draws one rejection sampler call may make
MaxDraws == 6

\* largest shape n of a Devroye call
MaxN == 2

\* coefficients one series loop may evaluate
MaxCoef == 4

\* grid steps by which erfc(x) + erfc(-x) may miss 2 (the tolerance of the sum)
ErfcTol == 2

\* largest |x| of the grid of pgm_erfc's arguments
MaxErfcArg == 8

\* activations of pgm_erfc the stack may hold
MaxErfcDepth == 4

\* largest whole z of pgm_lgamma's arguments
MaxLgammaArg == 130

\* largest whole s of pgm_gammaq's arguments
MaxGammaqShape == 30

Runs == {1, 2}

\* Values the engine's primitives return.
UnifVals == {0, Q \div 2, Lit(995, 1000), Q - 1}

ExpVals == {0, Q \div 4, 2 * Q}

WaldVals == {Q \div 4, Q \div 2, Q, 3 * Q}

GammaVals == {Q \div 2, 2 * Q}

\* What a read of a never-written double can yield.
Garbage == {0, Q \div 4, Q - 1}

----------------------------------------------------------------------------
\* The state of one sampler call
\*
\* st[r] is run r of the call: the entry point fn and its arguments, the locals of
\* the functions on its stack, the position pc, the value ret it returned, the
\* engine calls it made (draws, by primitive) and what it has observed so far.
\* The two runs are given the same engine values, draw by draw.  In mode "same"
\* they have the same arguments; in mode "neg" run 2 is called with -z.

VARIABLES st, mode, pf

vars == <<st, mode, pf>>

NoCfg == [mu |-> 0, k |-> 0, half_mu2 |-> 0, ratio |-> 0, x |-> 0, logx |-> 0]

NoDraws == [unif |-> 0, exp |-> 0, gamma |-> 0, wald |-> 0]

Blank ==
    [pc |-> "idle", fn |-> "none", caller |-> "top",
     a |-> 0, b |-> 0, t |-> 0, mu |-> 0, lambda |-> 0,
     n |-> 0, z |-> 0, h |-> 0, arg_n |-> 0,
     c0 |-> 0, x |-> 0, e1 |-> 0, half_lambda |-> 0,
     cfg |-> NoCfg, cfgw |-> {}, cfgat |-> NoCfg, inits |-> 0,
     s |-> 0, u |-> 0, i |-> 0, out |-> 0, ret |-> 0,
     draws |-> NoDraws, acc |-> <<>>, used |-> <<>>, den |-> 0,
     wrapped |-> FALSE, uninit_read |-> FALSE, stale_read |-> FALSE,
     decided |-> "none"]

\* The component draw the call is in: 1 + the draws that succeeded.  cfgat
\* keeps, for each field of the config, the component draw that wrote it last
\* (0: never written).
Cur(m) == Len(m.acc) + 1

NDraws(m) == m.draws.unif + m.draws.exp + m.draws.gamma + m.draws.wald

\* The engine is called for one variate of the kind.
Drew(m, kind) == [m EXCEPT !.draws[kind] = @ + 1]

\* The call returns v.
Return(m, v) == [m EXCEPT !.pc = "done", !.ret = v]

----------------------------------------------------------------------------
\* random_left_bounded_gamma

\* The branch on a, and the constants of the a > 1 branch.
lbg_enter(m) ==
    IF m.a > FInt(1) THEN
        LET b == FMul(m.t, m.b)
            b_minus_a == b - m.a
            c0 == FDiv(FMul(Lit(5, 10),
                            b_minus_a + FSqrt(FMul(b_minus_a, b_minus_a) + FMul(FInt(4), b))),
                       b)
        IN  [m EXCEPT !.pc = "lbg_gt1_exp", !.b = b, !.c0 = c0]
    ELSE IF m.a = FInt(1) THEN [m EXCEPT !.pc = "lbg_eq1_exp"]
    ELSE [m EXCEPT !.pc = "lbg_lt1_exp"]

\* a > 1: x = b + Exp / c0
lbg_gt1_propose(m, e) ==
    [Drew(m, "exp") EXCEPT !.pc = "lbg_gt1_unif", !.x = m.b + FDiv(e, m.c0)]

\* a > 1: the loop test, and the return
lbg_gt1_test(m, U) ==
    LET a_minus_1 == m.a - FInt(1)
        one_minus_c0 == FInt(1) - m.c0
        log_rho == FMul(a_minus_1, FLog(m.x)) - FMul(m.x, one_minus_c0)
        log_m == FMul(a_minus_1, FLog(FDiv(a_minus_1, one_minus_c0))) - a_minus_1
        d == Drew(m, "unif")
    IN  IF FLog(FInt(1) - U) > log_rho - log_m
        THEN [d EXCEPT !.pc = "lbg_gt1_exp"]
        ELSE Return(d, FMul(m.t, FDiv(m.x, m.b)))

\* a == 1: t + Exp / b
lbg_eq1(m, e) == Return(Drew(m, "exp"), m.t + FDiv(e, m.b))

\* a < 1: x = 1 + Exp / (t * b)
lbg_lt1_propose(m, e) ==
    [Drew(m, "exp") EXCEPT !.pc = "lbg_lt1_unif",
                           !.x = FInt(1) + FDiv(e, FMul(m.t, m.b))]

\* a < 1: the loop test, and the return
lbg_lt1_test(m, U) ==
    LET d == Drew(m, "unif")
    IN  IF FLog(FInt(1) - U) > FMul(m.a - FInt(1), FLog(m.x))
        THEN [d EXCEPT !.pc = "lbg_lt1_exp"]
        ELSE Return(d, FMul(m.t, m.x))

----------------------------------------------------------------------------
\* random_right_bounded_inverse_gaussian

\* The value x goes back to the caller: the entry point's, or random_jacobi's
\* assignment cfg->x = ... .
rbig_return(m, x) ==
    IF m.caller = "jacobi"
    THEN [m EXCEPT !.pc = "j_u", !.caller = "top", !.e1 = 0, !.x = 0,
                   !.cfg.x = x, !.cfgw = @ \cup {"x"}, !.cfgat.x = Cur(m)]
    ELSE Return(m, x)

\* The branch on t < mu, and the constants of that branch.
rbig_enter(m) ==
    IF m.t < m.mu
    THEN [m EXCEPT !.pc = "rbig_e1",
                   !.a = FDiv(FInt(1), FMul(m.mu, m.mu)),
                   !.half_lambda = FMul(Lit(-5, 10), m.lambda)]
    ELSE [m EXCEPT !.pc = "rbig_wald"]

rbig_e1(m, e) == [Drew(m, "exp") EXCEPT !.pc = "rbig_e2", !.e1 = e]

\* e2, the inner loop's test, x, and the a > 0 half of the outer loop's test
rbig_e2(m, e2) ==
    LET d == Drew(m, "exp")
        x1 == FInt(1) + FMul(m.t, m.e1)
        x == FDiv(m.t, FMul(x1, x1))
    IN  IF FMul(m.e1, m.e1) > FDiv(FMul(FInt(2), e2), m.t)
        THEN [d EXCEPT !.pc = "rbig_e1"]
        ELSE IF m.a > 0 THEN [d EXCEPT !.pc = "rbig_unif", !.x = x]
        ELSE rbig_return(d, x)

\* the uniform's half of the outer loop's test, and the return
rbig_test(m, U) ==
    LET d == Drew(m, "unif")
    IN  IF FLog(FInt(1) - U) >= FMul(FMul(m.half_lambda, m.a), m.x)
        THEN [d EXCEPT !.pc = "rbig_e1"]
        ELSE rbig_return(d, m.x)

\* t >= mu: a Wald variate, again while it is >= t
rbig_wald(m, w) ==
    LET d == Drew(m, "wald")
    IN  IF w >= m.t THEN [d EXCEPT !.pc = "rbig_wald"] ELSE rbig_return(d, w)

----------------------------------------------------------------------------
\* struct config, and the alternating series

\* What reading field f of the config yields: its value once written, and
\* before that whatever the stack holds (g).
Rd(m, f, g) == IF f \in m.cfgw THEN m.cfg[f] ELSE g

\* The config as the code reads it.
CfgRead(m, g) == [f \in DOMAIN m.cfg |-> Rd(m, f, g)]

\* The run read the fields fs of the config.
Reading(m, fs) ==
    [m EXCEPT !.uninit_read = @ \/ ~(fs \subseteq m.cfgw),
              !.stale_read = @ \/ \E f \in fs \cap {"x", "logx"} :
                                      f \in m.cfgw /\ m.cfgat[f] # Cur(m)]

\* a_n(x|t), the nth term of the alternating sum S_n(x|t)
piecewise_coef(n, cfg) ==
    LET n_plus_half == FInt(n) + Lit(5, 10)
        n_plus_half2 == FMul(n_plus_half, n_plus_half)
        n_plus_halfpi == FMul(NPY_PI, n_plus_half)
        x == cfg.x
    IN  IF x > T THEN
            FMul(n_plus_halfpi,
                 FExp(FMul(FMul(FMul(Lit(-5, 10), x), n_plus_halfpi), n_plus_halfpi)))
        ELSE IF x > 0 THEN
            FMul(n_plus_halfpi,
                 FExp(FMul(Lit(-15, 10), PGM_LOGPI_2 + cfg.logx)
                      - FDiv(FMul(FInt(2), n_plus_half2), x)))
        ELSE 0

\* The fields of the config piecewise_coef reads.
piecewise_coef_reads(cfg) ==
    IF cfg.x > T THEN {"x"} ELSE IF cfg.x > 0 THEN {"x", "logx"} ELSE {"x"}

\* ++i of the series loops.  Once two coefficients in a row are 0 every later
\* one is 0 too (the exponent only falls as n grows), a pass then depends on i
\* through its parity alone, and past MaxCoef the index is kept by its parity.
next_i(i, cfg) ==
    IF i >= MaxCoef /\ piecewise_coef(i, cfg) = 0 /\ piecewise_coef(i - 1, cfg) = 0
    THEN i - 1 ELSE i + 1

\* One pass of random_jacobi_0's series loop at index i: the new partial sum and
\* what the pass decides.
jacobi_0_pass(s, u, i, cfg) ==
    IF i % 2 = 1 THEN
        LET s1 == s - piecewise_coef(i, cfg)
        IN  [s |-> s1, verdict |-> IF u < s1 THEN "accept" ELSE "continue"]
    ELSE
        LET s1 == s + piecewise_coef(i, cfg)
        IN  [s |-> s1, verdict |-> IF u > s1 THEN "reject" ELSE "continue"]

\* One pass of random_jacobi's series loop at index i.
jacobi_pass(s, u, i, cfg) ==
    IF i % 2 = 1 THEN
        LET s1 == s - piecewise_coef(i, cfg)
        IN  [s |-> s1, verdict |-> IF u <= s1 THEN "accept" ELSE "continue"]
    ELSE
        LET s1 == s + piecewise_coef(i, cfg)
        IN  [s |-> s1, verdict |-> IF u > s1 THEN "reject" ELSE "continue"]

----------------------------------------------------------------------------
\* random_polyagamma_devroye

\* n-- on a uint64_t
dec_n(n) == IF n = 0 THEN SIZE_MAX ELSE n - 1

\* A slip: the loop test n > 1 in place of n != 0.
devroye_component_off_by_one(m, x, again) ==
    LET out == m.out + x
        n == dec_n(m.n)
        d == [m EXCEPT !.out = out, !.n = n, !.acc = Append(@, x),
                       !.wrapped = @ \/ m.n = 0,
                       !.e1 = 0, !.s = 0, !.u = 0, !.i = 0]
    IN  IF n > 1 THEN [d EXCEPT !.pc = again]
        ELSE Return(d, FMul(Lit(25, 100), out))

\* A slip: struct config declared inside the loop, a new one for every
\* component draw.
devroye_component_new_config(m, x, again) ==
    LET out == m.out + x
        n == dec_n(m.n)
        d == [m EXCEPT !.out = out, !.n = n, !.acc = Append(@, x),
                       !.wrapped = @ \/ m.n = 0,
                       !.e1 = 0, !.s = 0, !.u = 0, !.i = 0]
    IN  IF n # 0 THEN [d EXCEPT !.pc = again, !.cfg = NoCfg, !.cfgw = {}, !.cfgat = NoCfg]
        ELSE Return(d, FMul(Lit(25, 100), out))

\* The body of a do-while loop of random_polyagamma_devroye once the jacobi
\* sampler returned x: out += x, n--, and the loop test; again is where the
\* next component draw starts.
devroye_component(m, x, again) ==
    LET out == m.out + x
        n == dec_n(m.n)
        d == [m EXCEPT !.out = out, !.n = n, !.acc = Append(@, x),
                       !.wrapped = @ \/ m.n = 0,
                       !.e1 = 0, !.s = 0, !.u = 0, !.i = 0]
    IN  IF n # 0 THEN [d EXCEPT !.pc = again]
        ELSE Return(d, FMul(Lit(25, 100), out))

\* cfg->mu, cfg->k and cfg->half_mu2 from z
initialize_config(cfg, z) ==
    LET mu == FDiv(FInt(1), z)
    IN  [cfg EXCEPT !.mu = mu,
                    !.k = PGM_PI2_8 + FMul(FMul(Lit(5, 10), z), z),
                    !.half_mu2 = FDiv(Lit(-5, 10), FMul(mu, mu))]

\* The branch on z == 0, and for z != 0 the config and the mixture weight.
devroye_enter(m) ==
    IF m.z = 0 THEN [m EXCEPT !.pc = "j0_mix", !.out = 0]
    ELSE
        LET cfg == initialize_config(m.cfg, m.z)
            q == FDiv(FMul(NPY_PI_2, FExp(FMul(0 - cfg.k, T))), cfg.k)
            p == FMul(FMul(FInt(2), FExp(0 - m.z)),
                      inverse_gaussian_cdf(T, cfg.mu, FInt(1)))
        IN  [m EXCEPT !.pc = "j_mix", !.out = 0,
                      !.cfg = [cfg EXCEPT !.ratio = FDiv(p, p + q)],
                      !.cfgw = {"mu", "k", "half_mu2", "ratio"},
                      !.cfgat = [NoCfg EXCEPT !.mu = 1, !.k = 1, !.half_mu2 = 1,
                                              !.ratio = 1],
                      !.inits = 1]

\* random_jacobi_0's mixture weight p / (p + q)
jacobi_0_ratio == FDiv(Lit(422599, 1000000), Lit(422599, 1000000) + Lit(578102, 1000000))

\* A slip: the mixture weight read from the config, which the z == 0 path
\* never writes.
j0_mix_ratio_from_cfg(m, U, g) ==
    [Drew(m, "unif") EXCEPT !.pc = IF U < Rd(m, "ratio", g) THEN "j0_e1" ELSE "j0_tail"]

\* random_jacobi_0: the choice of the proposal
j0_mix(m, U, g) ==
    [Drew(m, "unif") EXCEPT !.pc = IF U < jacobi_0_ratio THEN "j0_e1" ELSE "j0_tail"]

j0_e1(m, e, g) == [Drew(m, "exp") EXCEPT !.pc = "j0_e2", !.e1 = e]

\* random_jacobi_0: e2, the inner loop's test, and the candidate cfg->x
j0_e2(m, e2, g) ==
    LET d == Drew(m, "exp")
        x1 == FInt(1) + FMul(T, m.e1)
    IN  IF FMul(m.e1, m.e1) > FMul(NPY_PI, e2)
        THEN [d EXCEPT !.pc = "j0_e1"]
        ELSE [d EXCEPT !.pc = "j0_u", !.cfg.x = FDiv(T, FMul(x1, x1)),
                       !.cfgw = @ \cup {"x"}, !.cfgat.x = Cur(m)]

\* random_jacobi_0: the candidate of the exponential tail
j0_tail(m, e, g) ==
    [Drew(m, "exp") EXCEPT !.pc = "j0_u",
                           !.cfg.x = T + FDiv(FMul(FInt(8), e), PGM_PI2),
                           !.cfgw = @ \cup {"x"}, !.cfgat.x = Cur(m)]

\* cfg->logx, s = a_0(x), u = U * s, and i = 1
series_start(m, U, g, series) ==
    LET x == Rd(m, "x", g)
        c == [CfgRead(m, g) EXCEPT !.logx = FLog(x)]
        s == piecewise_coef(0, c)
        d == Reading(Drew(m, "unif"), {"x"})
    IN  [d EXCEPT !.pc = series, !.cfg.logx = FLog(x), !.cfgw = @ \cup {"logx"},
                  !.cfgat.logx = Cur(m),
                  !.s = s, !.u = FMul(U, s), !.i = 1, !.decided = "none"]

j0_u(m, U, g) == series_start(m, U, g, "j0_series")

\* random_jacobi_0: one pass of the series loop, and what follows its verdict
j0_series(m, g) ==
    LET c == CfgRead(m, g)
        r == jacobi_0_pass(m.s, m.u, m.i, c)
        d == [Reading(m, piecewise_coef_reads(c)) EXCEPT !.s = r.s, !.decided = r.verdict]
    IN  IF r.verdict = "accept" THEN devroye_component(d, c.x, "j0_mix")
        ELSE IF r.verdict = "reject" THEN [d EXCEPT !.pc = "j0_mix"]
        ELSE [d EXCEPT !.i = next_i(m.i, c)]

\* random_jacobi: the choice of the proposal, and the call of
\* random_right_bounded_inverse_gaussian(cfg->mu, 1, T)
j_mix(m, U, g) ==
    LET d == Reading(Drew(m, "unif"), {"ratio"})
    IN  IF U < Rd(m, "ratio", g)
        THEN rbig_enter([Reading(d, {"mu"}) EXCEPT
                             !.caller = "jacobi", !.mu = Rd(m, "mu", g),
                             !.lambda = FInt(1), !.t = T])
        ELSE [d EXCEPT !.pc = "j_tail"]

\* random_jacobi: the candidate of the exponential tail
j_tail(m, e, g) ==
    [Reading(Drew(m, "exp"), {"k"}) EXCEPT
         !.pc = "j_u", !.cfg.x = T + FDiv(e, Rd(m, "k", g)), !.cfgw = @ \cup {"x"},
         !.cfgat.x = Cur(m)]

j_u(m, U, g) == series_start(m, U, g, "j_series")

\* random_jacobi: one pass of the series loop, and what follows its verdict
j_series(m, g) ==
    LET c == CfgRead(m, g)
        r == jacobi_pass(m.s, m.u, m.i, c)
        d == [Reading(m, piecewise_coef_reads(c)) EXCEPT !.s = r.s, !.decided = r.verdict]
    IN  IF r.verdict = "accept" THEN devroye_component(d, c.x, "j_mix")
        ELSE IF r.verdict = "reject" THEN [d EXCEPT !.pc = "j_mix"]
        ELSE [d EXCEPT !.i = next_i(m.i, c)]

----------------------------------------------------------------------------
\* random_polyagamma_gamma_conv

\* A slip: the loop counter starts one short.
gamma_conv_enter_one_short(m) ==
    [m EXCEPT !.pc = "gc_loop", !.out = 0, !.n = PGM_GAMMA_LIMIT - 1]

gamma_conv_enter(m) == [m EXCEPT !.pc = "gc_loop", !.out = 0, !.n = PGM_GAMMA_LIMIT]

\* The denominator of term n.
gamma_conv_den(n, z) ==
    LET c == FInt(n) + Lit(5, 10)
    IN  FMul(FMul(PGM_PI2, c), c) + FMul(z, z)

\* The loop test n-- found n # 0: one term of the sum.
gamma_conv_term(m, gam) ==
    LET n == m.n - 1
    IN  [Drew(m, "gamma") EXCEPT
             !.n = n, !.den = gamma_conv_den(n, m.z), !.used = Append(@, n),
             !.out = @ + FDiv(gam, gamma_conv_den(n, m.z))]

\* The loop test n-- found n = 0.
gamma_conv_exit(m) ==
    Return([m EXCEPT !.n = dec_n(m.n)], FMul(Lit(5, 10), m.out))

----------------------------------------------------------------------------
\* pgm_lgamma

\* The lookup table for integer values of log-gamma where 1 <= z <= 126.
logfactorial ==
    <<
      Lit(0, 1000), Lit(0, 1000), Lit(693, 1000), Lit(1791, 1000), Lit(3178, 1000), Lit(4787, 1000),
      Lit(6579, 1000), Lit(8525, 1000), Lit(10604, 1000), Lit(12801, 1000), Lit(15104, 1000), Lit(17502, 1000),
      Lit(19987, 1000), Lit(22552, 1000), Lit(25191, 1000), Lit(27899, 1000), Lit(30671, 1000), Lit(33505, 1000),
      Lit(36395, 1000), Lit(39339, 1000), Lit(42335, 1000), Lit(45380, 1000), Lit(48471, 1000), Lit(51606, 1000),
      Lit(54784, 1000), Lit(58003, 1000), Lit(61261, 1000), Lit(64557, 1000), Lit(67889, 1000), Lit(71257, 1000),
      Lit(74658, 1000), Lit(78092, 1000), Lit(81557, 1000), Lit(85054, 1000), Lit(88580, 1000), Lit(92136, 1000),
      Lit(95719, 1000), Lit(99330, 1000), Lit(102968, 1000), Lit(106631, 1000), Lit(110320, 1000), Lit(114034, 1000),
      Lit(117771, 1000), Lit(121533, 1000), Lit(125317, 1000), Lit(129123, 1000), Lit(132952, 1000), Lit(136802, 1000),
      Lit(140673, 1000), Lit(144565, 1000), Lit(148477, 1000), Lit(152409, 1000), Lit(156360, 1000), Lit(160331, 1000),
      Lit(164320, 1000), Lit(168327, 1000), Lit(172352, 1000), Lit(176395, 1000), Lit(180456, 1000), Lit(184533, 1000),
      Lit(188628, 1000), Lit(192739, 1000), Lit(196866, 1000), Lit(201009, 1000), Lit(205168, 1000), Lit(209342, 1000),
      Lit(213532, 1000), Lit(217736, 1000), Lit(221956, 1000), Lit(226190, 1000), Lit(230439, 1000), Lit(234701, 1000),
      Lit(238978, 1000), Lit(243268, 1000), Lit(247572, 1000), Lit(251890, 1000), Lit(256221, 1000), Lit(260564, 1000),
      Lit(264921, 1000), Lit(269291, 1000), Lit(273673, 1000), Lit(278067, 1000), Lit(282474, 1000), Lit(286893, 1000),
      Lit(291323, 1000), Lit(295766, 1000), Lit(300220, 1000), Lit(304686, 1000), Lit(309164, 1000), Lit(313652, 1000),
      Lit(318152, 1000), Lit(322663, 1000), Lit(327185, 1000), Lit(331717, 1000), Lit(336261, 1000), Lit(340815, 1000),
      Lit(345379, 1000), Lit(349954, 1000), Lit(354539, 1000), Lit(359134, 1000), Lit(363739, 1000), Lit(368354, 1000),
      Lit(372979, 1000), Lit(377614, 1000), Lit(382258, 1000), Lit(386912, 1000), Lit(391575, 1000), Lit(396248, 1000),
      Lit(400930, 1000), Lit(405622, 1000), Lit(410322, 1000), Lit(415032, 1000), Lit(419750, 1000), Lit(424478, 1000),
      Lit(429214, 1000), Lit(433959, 1000), Lit(438712, 1000), Lit(443475, 1000), Lit(448245, 1000), Lit(453024, 1000),
      Lit(457812, 1000), Lit(462608, 1000), Lit(467412, 1000), Lit(472224, 1000), Lit(477044, 1000), Lit(481872, 1000)
    >>

\* (size_t)z, z >= 0
size_t_of(z) == z \div Q

\* zz - 1 on a size_t
size_t_dec(zz) == IF zz = 0 THEN SIZE_MAX ELSE zz - 1

\* The branch pgm_lgamma(z) takes.
lgamma_path(z) ==
    IF z < FInt(127) /\ z = FInt(size_t_of(z)) THEN "lookup"
    ELSE IF z > FInt(12) THEN "stirling"
    ELSE IF z >= FInt(4) THEN "rational_4_12"
    ELSE IF z > Lit(15, 10) THEN "rational_1.5_4"
    ELSE IF z >= Lit(5, 10) THEN "rational_0.5_1.5"
    ELSE IF z > DBL_EPSILON THEN "shifted"
    ELSE IF z > DBL_MIN THEN "pole"
    ELSE "log_dbl_min"

\* pgm_lgamma(z) on the lookup branch: the index it reads the table at, and
\* the value, which is any double at all when the index is outside the table.
lgamma_lookup(z, junk) ==
    LET idx == size_t_dec(size_t_of(z))
    IN  [idx |-> idx,
         kind |-> IF idx < Len(logfactorial) THEN "num" ELSE "out_of_bounds",
         v |-> IF idx < Len(logfactorial) THEN logfactorial[idx + 1] ELSE junk]

----------------------------------------------------------------------------
\* pgm_gammaq

\* a / b as the hardware divides: 0/0 is a NaN and v/0 an infinity.
IeeeDiv(a, b) ==
    IF b # 0 THEN [kind |-> "num", v |-> FDiv(a, b)]
    ELSE IF a = 0 THEN [kind |-> "nan", v |-> 0]
    ELSE [kind |-> "inf", v |-> Sgn(a)]

\* a + r
IeeeAdd(a, r) == IF r.kind = "num" THEN [kind |-> "num", v |-> a + r.v] ELSE r

RECURSIVE gammaq_int_sum(_, _, _, _, _)
\* for (k = sum = a = 1; k < ss; k++) sum += (a *= x / k);
gammaq_int_sum(x, ss, k, a, sum) ==
    IF k < ss
    THEN LET a1 == FMul(a, FDiv(x, FInt(k)))
         IN  gammaq_int_sum(x, ss, k + 1, a1, sum + a1)
    ELSE sum

RECURSIVE gammaq_half_sum(_, _, _, _, _)
\* for (k = a = 1, sum = 0; k < ss + 1; k++) sum += (a *= x / (k - 0.5));
gammaq_half_sum(x, ss, k, a, sum) ==
    IF k < ss + 1
    THEN LET a1 == FMul(a, FDiv(x, FInt(k) - Lit(5, 10)))
         IN  gammaq_half_sum(x, ss, k + 1, a1, sum + a1)
    ELSE sum

\* The branch pgm_gammaq(s, x) takes.
gammaq_path(s) ==
    LET ss == size_t_of(s)
    IN  IF s = FInt(ss) /\ s < FInt(30) THEN "integer"
        ELSE IF s = FInt(ss) + Lit(5, 10) /\ s < FInt(30) THEN "half_integer"
        ELSE "kf_gammaq"

pgm_gammaq(s, x) ==
    LET ss == size_t_of(s)
        one_sqrtpi == Lit(564189, 1000000)
    IN  IF gammaq_path(s) = "integer" THEN
            [kind |-> "num", v |-> FMul(FExp(0 - x), gammaq_int_sum(x, ss, 1, FInt(1), FInt(1)))]
        ELSE IF gammaq_path(s) = "half_integer" THEN
            LET sqrt_x == FSqrt(x)
                sum == gammaq_half_sum(x, ss, 1, FInt(1), 0)
            IN  IeeeAdd(pgm_erfc(sqrt_x),
                        IeeeDiv(FMul(FMul(FExp(0 - x), one_sqrtpi), sum), sqrt_x))
        ELSE [kind |-> "kf_gammaq", v |-> 0]

----------------------------------------------------------------------------
\* The calls

LbgCalls ==
    {[Blank EXCEPT !.pc = "call", !.fn = "lbg", !.a = a, !.b = b, !.t = t] :
        a \in {Q \div 2, Q, 2 * Q}, b \in {Q, 2 * Q}, t \in {Q \div 2, Q}}

RbigCalls ==
    {[Blank EXCEPT !.pc = "call", !.fn = "rbig", !.mu = mu, !.lambda = Q, !.t = t] :
        mu \in {Q \div 2, 2 * Q}, t \in {Q \div 2, Q}}

DevroyeZ == {0, Q, 2 * Q, 0 - Q, 0 - 2 * Q}

DevroyeCalls ==
    {[Blank EXCEPT !.pc = "call", !.fn = "devroye", !.n = n, !.arg_n = n, !.z = z] :
        n \in 1..MaxN, z \in DevroyeZ}

GammaConvCalls ==
    {[Blank EXCEPT !.pc = "call", !.fn = "gamma_conv", !.h = Q, !.z = z] : z \in {0, Q}}

NoValue == [kind |-> "none", v |-> 0]

\* pf is the evaluation of one special function: the function fn and its
\* arguments (x; s and x for pgm_gammaq), the activations of pgm_erfc on the
\* stack (frames, the innermost last), the value inner the last activation
\* returned to the one below it, the value ret the call returned, and what was
\* observed: the calls pgm_erfc made to itself (nested), the branch taken
\* (path) and the table index read (idx).
PfIdle ==
    [fn |-> "none", pc |-> "idle", x |-> 0, s |-> 0, frames |-> <<>>, inner |-> 0,
     nested |-> 0, ret |-> NoValue, path |-> "none", idx |-> 0]

\* The integers and half-integers 0, 0.5, 1, ..., n + 0.5
Halves(n) == {FInt(k) : k \in 0..n} \cup {FInt(k) + Lit(5, 10) : k \in 0..n}

ErfcArgs ==
    {TDiv(k * Q, 4) : k \in (0 - 4 * MaxErfcArg)..(4 * MaxErfcArg)}
        \cup {0 - 2, 0 - 1, 1, 2, erfc_small_val - 1, erfc_small_val, erfc_small_val + 1,
              erfc_big_val, erfc_big_val + 1}

ErfcCalls == {[PfIdle EXCEPT !.fn = "erfc", !.pc = "erfc", !.x = x, !.frames = <<x>>] : x \in ErfcArgs}

LgammaCalls == {[PfIdle EXCEPT !.fn = "lgamma", !.pc = "lgamma", !.x = z] : z \in Halves(MaxLgammaArg)}

GammaqCalls ==
    {[PfIdle EXCEPT !.fn = "gammaq", !.pc = "gammaq", !.s = s, !.x = x] :
        s \in Halves(MaxGammaqShape) \cup {Lit(25, 100)}, x \in {0, Lit(5, 10), FInt(2)}}

Init ==
    /\ pf = PfIdle
    /\ \/ /\ mode = "same"
          /\ \E c \in LbgCalls \cup RbigCalls \cup DevroyeCalls \cup GammaConvCalls :
                st = [r \in Runs |-> c]
       \/ /\ mode = "neg"
          /\ \E c \in DevroyeCalls :
                /\ c.z # 0
                /\ st = [r \in Runs |-> IF r = 1 THEN c ELSE [c EXCEPT !.z = 0 - c.z]]

----------------------------------------------------------------------------
\* The steps.  Both runs take each step together, on the same engine value.

At(pc) == \A r \in Runs : st[r].pc = pc

Entering(fn) == \A r \in Runs : st[r].pc = "call" /\ st[r].fn = fn

\* A rejection sampler may draw once more.
CanDraw == \A r \in Runs : NDraws(st[r]) < MaxDraws

Stacks == [Runs -> Garbage]

LbgEnter ==
    /\ Entering("lbg")
    /\ st' = [r \in Runs |-> lbg_enter(st[r])]
    /\ UNCHANGED <<mode, pf>>

LbgGt1Propose ==
    /\ At("lbg_gt1_exp") /\ CanDraw
    /\ \E e \in ExpVals : st' = [r \in Runs |-> lbg_gt1_propose(st[r], e)]
    /\ UNCHANGED <<mode, pf>>

LbgGt1Test ==
    /\ At("lbg_gt1_unif") /\ CanDraw
    /\ \E U \in UnifVals : st' = [r \in Runs |-> lbg_gt1_test(st[r], U)]
    /\ UNCHANGED <<mode, pf>>

LbgEq1 ==
    /\ At("lbg_eq1_exp") /\ CanDraw
    /\ \E e \in ExpVals : st' = [r \in Runs |-> lbg_eq1(st[r], e)]
    /\ UNCHANGED <<mode, pf>>

LbgLt1Propose ==
    /\ At("lbg_lt1_exp") /\ CanDraw
    /\ \E e \in ExpVals : st' = [r \in Runs |-> lbg_lt1_propose(st[r], e)]
    /\ UNCHANGED <<mode, pf>>

LbgLt1Test ==
    /\ At("lbg_lt1_unif") /\ CanDraw
    /\ \E U \in UnifVals : st' = [r \in Runs |-> lbg_lt1_test(st[r], U)]
    /\ UNCHANGED <<mode, pf>>

RbigEnter ==
    /\ Entering("rbig")
    /\ st' = [r \in Runs |-> rbig_enter(st[r])]
    /\ UNCHANGED <<mode, pf>>

RbigE1 ==
    /\ At("rbig_e1") /\ CanDraw
    /\ \E e \in ExpVals : st' = [r \in Runs |-> rbig_e1(st[r], e)]
    /\ UNCHANGED <<mode, pf>>

RbigE2 ==
    /\ At("rbig_e2") /\ CanDraw
    /\ \E e \in ExpVals : st' = [r \in Runs |-> rbig_e2(st[r], e)]
    /\ UNCHANGED <<mode, pf>>

RbigTest ==
    /\ At("rbig_unif") /\ CanDraw
    /\ \E U \in UnifVals : st' = [r \in Runs |-> rbig_test(st[r], U)]
    /\ UNCHANGED <<mode, pf>>

RbigWald ==
    /\ At("rbig_wald") /\ CanDraw
    /\ \E w \in WaldVals : st' = [r \in Runs |-> rbig_wald(st[r], w)]
    /\ UNCHANGED <<mode, pf>>

DevroyeEnter ==
    /\ Entering("devroye")
    /\ st' = [r \in Runs |-> devroye_enter(st[r])]
    /\ UNCHANGED <<mode, pf>>

Jacobi0Mix ==
    /\ At("j0_mix") /\ CanDraw
    /\ \E U \in UnifVals, g \in Stacks : st' = [r \in Runs |-> j0_mix(st[r], U, g[r])]
    /\ UNCHANGED <<mode, pf>>

Jacobi0E1 ==
    /\ At("j0_e1") /\ CanDraw
    /\ \E e \in ExpVals, g \in Stacks : st' = [r \in Runs |-> j0_e1(st[r], e, g[r])]
    /\ UNCHANGED <<mode, pf>>

Jacobi0E2 ==
    /\ At("j0_e2") /\ CanDraw
    /\ \E e \in ExpVals, g \in Stacks : st' = [r \in Runs |-> j0_e2(st[r], e, g[r])]
    /\ UNCHANGED <<mode, pf>>

Jacobi0Tail ==
    /\ At("j0_tail") /\ CanDraw
    /\ \E e \in ExpVals, g \in Stacks : st' = [r \in Runs |-> j0_tail(st[r], e, g[r])]
    /\ UNCHANGED <<mode, pf>>

Jacobi0U ==
    /\ At("j0_u") /\ CanDraw
    /\ \E U \in UnifVals, g \in Stacks : st' = [r \in Runs |-> j0_u(st[r], U, g[r])]
    /\ UNCHANGED <<mode, pf>>

Jacobi0Series ==
    /\ At("j0_series")
    /\ \A r \in Runs : st[r].i <= MaxCoef
    /\ \E g \in Stacks : st' = [r \in Runs |-> j0_series(st[r], g[r])]
    /\ UNCHANGED <<mode, pf>>

JacobiMix ==
    /\ At("j_mix") /\ CanDraw
    /\ \E U \in UnifVals, g \in Stacks : st' = [r \in Runs |-> j_mix(st[r], U, g[r])]
    /\ UNCHANGED <<mode, pf>>

JacobiTail ==
    /\ At("j_tail") /\ CanDraw
    /\ \E e \in ExpVals, g \in Stacks : st' = [r \in Runs |-> j_tail(st[r], e, g[r])]
    /\ UNCHANGED <<mode, pf>>

JacobiU ==
    /\ At("j_u") /\ CanDraw
    /\ \E U \in UnifVals, g \in Stacks : st' = [r \in Runs |-> j_u(st[r], U, g[r])]
    /\ UNCHANGED <<mode, pf>>

JacobiSeries ==
    /\ At("j_series")
    /\ \A r \in Runs : st[r].i <= MaxCoef
    /\ \E g \in Stacks : st' = [r \in Runs |-> j_series(st[r], g[r])]
    /\ UNCHANGED <<mode, pf>>

GammaConvEnter ==
    /\ Entering("gamma_conv")
    /\ st' = [r \in Runs |-> gamma_conv_enter(st[r])]
    /\ UNCHANGED <<mode, pf>>

GammaConvTerm ==
    /\ At("gc_loop")
    /\ \A r \in Runs : st[r].n # 0
    /\ \E gam \in GammaVals : st' = [r \in Runs |-> gamma_conv_term(st[r], gam)]
    /\ UNCHANGED <<mode, pf>>

GammaConvExit ==
    /\ At("gc_loop")
    /\ \A r \in Runs : st[r].n = 0
    /\ st' = [r \in Runs |-> gamma_conv_exit(st[r])]
    /\ UNCHANGED <<mode, pf>>

Next ==
    \/ LbgEnter \/ LbgGt1Propose \/ LbgGt1Test \/ LbgEq1 \/ LbgLt1Propose \/ LbgLt1Test
    \/ RbigEnter \/ RbigE1 \/ RbigE2 \/ RbigTest \/ RbigWald
    \/ DevroyeEnter
    \/ Jacobi0Mix \/ Jacobi0E1 \/ Jacobi0E2 \/ Jacobi0Tail \/ Jacobi0U \/ Jacobi0Series
    \/ JacobiMix \/ JacobiTail \/ JacobiU \/ JacobiSeries
    \/ GammaConvEnter \/ GammaConvTerm \/ GammaConvExit

Spec == Init /\ [][Next]_vars

\* The samplers as a running program: a step that can be taken is taken.
SpecLive == Init /\ [][Next]_vars /\ WF_vars(Next)

----------------------------------------------------------------------------
\* The special functions, each evaluated on its own

InitFn ==
    /\ st = [r \in Runs |-> Blank]
    /\ mode = "same"
    /\ pf \in ErfcCalls \cup LgammaCalls \cup GammaqCalls

\* The innermost activation of pgm_erfc returns v.
erfc_return(p, v) ==
    IF Len(p.frames) = 1
    THEN [p EXCEPT !.pc = "done", !.frames = <<>>, !.ret = [kind |-> "num", v |-> v]]
    ELSE [p EXCEPT !.pc = "erfc_resume", !.frames = SubSeq(@, 1, Len(@) - 1), !.inner = v]

\* The innermost activation of pgm_erfc runs up to its nested call or its return.
ErfcBody ==
    /\ pf.pc = "erfc"
    /\ Len(pf.frames) <= MaxErfcDepth
    /\ LET x == pf.frames[Len(pf.frames)]
       IN  pf' = IF ErfcRecurses(x)
                 THEN [pf EXCEPT !.frames = Append(@, 0 - x), !.nested = @ + 1]
                 ELSE erfc_return(pf, erfc_body(x, 0))
    /\ UNCHANGED <<st, mode>>

\* The nested call returned: 2 - pgm_erfc(-x).
ErfcResume ==
    /\ pf.pc = "erfc_resume"
    /\ pf' = erfc_return(pf, erfc_body(pf.frames[Len(pf.frames)], pf.inner))
    /\ UNCHANGED <<st, mode>>

LgammaEval ==
    /\ pf.pc = "lgamma"
    /\ \E junk \in Garbage :
          LET r == lgamma_lookup(pf.x, junk)
          IN  pf' = IF lgamma_path(pf.x) = "lookup"
                    THEN [pf EXCEPT !.pc = "done", !.path = "lookup", !.idx = r.idx,
                                    !.ret = [kind |-> r.kind, v |-> r.v]]
                    ELSE [pf EXCEPT !.pc = "done", !.path = lgamma_path(pf.x),
                                    !.ret = [kind |-> "approximation", v |-> 0]]
    /\ UNCHANGED <<st, mode>>

GammaqEval ==
    /\ pf.pc = "gammaq"
    /\ pf' = [pf EXCEPT !.pc = "done", !.path = gammaq_path(pf.s),
                        !.ret = pgm_gammaq(pf.s, pf.x)]
    /\ UNCHANGED <<st, mode>>

NextFn == ErfcBody \/ ErfcResume \/ LgammaEval \/ GammaqEval

SpecFn == InitFn /\ [][NextFn]_vars
----------------------------------------------------------------------------
\* Properties

RECURSIVE SumSeq(_)
SumSeq(q) == IF q = <<>> THEN 0 ELSE Head(q) + SumSeq(Tail(q))

Done(r, fn) == st[r].fn = fn /\ st[r].pc = "done"

\* C1: every value random_left_bounded_gamma(a, b, t) returns is strictly
\* greater than t, whatever the engine returned.
C1_LeftBoundedGammaAboveT ==
    \A r \in Runs : Done(r, "lbg") => st[r].ret > st[r].t

\* C2: every value random_right_bounded_inverse_gaussian(mu, lambda, t) returns
\* is strictly less than t, whatever the engine returned.
C2_RightBoundedInverseGaussianBelowT ==
    \A r \in Runs : Done(r, "rbig") => st[r].ret < st[r].t

\* C3: a call random_polyagamma_devroye(n, z), n >= 1, accepts one component
\* draw per unit of n, its counter going from n down to 0 without wrapping, and
\* returns 0.25 times the sum of the n accepted values.
C3_DevroyeSumsNComponents ==
    \A r \in Runs :
        st[r].fn = "devroye" /\ st[r].pc # "call" =>
            /\ ~st[r].wrapped
            /\ st[r].n + Len(st[r].acc) = st[r].arg_n
            /\ st[r].out = SumSeq(st[r].acc)
            /\ st[r].pc # "done" => st[r].n >= 1
            /\ st[r].pc = "done" =>
                  /\ st[r].n = 0
                  /\ Len(st[r].acc) = st[r].arg_n
                  /\ st[r].ret = FMul(Lit(25, 100), SumSeq(st[r].acc))

\* A call with n = 2 and z # 0 returned a positive value.
C3_Witness ==
    /\ Done(1, "devroye")
    /\ st[1].arg_n = 2
    /\ st[1].z # 0
    /\ st[1].ret > 0

\* C4: a call random_polyagamma_gamma_conv(h, z) ends after exactly 200 engine
\* draws, all of them standard-gamma draws, one for each index n of 0..199,
\* each index used once with the denominator pi^2 (n + 0.5)^2 + z^2.
C4_GammaConvDraws200 ==
    \A r \in Runs :
        st[r].fn = "gamma_conv" /\ st[r].pc # "call" =>
            /\ st[r].draws = [NoDraws EXCEPT !.gamma = Len(st[r].used)]
            /\ st[r].pc = "gc_loop" => st[r].n + st[r].draws.gamma = 200
            /\ \A j \in 1..Len(st[r].used) : st[r].used[j] = 200 - j
            /\ st[r].used # <<>> =>
                  LET c == FInt(st[r].used[Len(st[r].used)]) + Lit(5, 10)
                  IN  st[r].den = FMul(FMul(PGM_PI2, c), c) + FMul(st[r].z, st[r].z)
            /\ st[r].pc = "done" =>
                  /\ st[r].draws.gamma = 200
                  /\ \A k \in 0..199 :
                        Cardinality({j \in 1..Len(st[r].used) : st[r].used[j] = k}) = 1

\* A call with z # 0 returned a positive value after its 200 draws.
C4_Witness ==
    /\ Done(1, "gamma_conv")
    /\ st[1].z # 0
    /\ st[1].draws.gamma = 200
    /\ st[1].ret > 0

GammaqClosedForm == pf.fn = "gammaq" /\ pf.pc = "done" /\ pf.path \in {"integer", "half_integer"}

\* C5: pgm_gammaq(s, 0) is 1 for every integer and half-integer s < 30, and no
\* path divides by sqrt(x) = 0.
C5_GammaqAtZeroIsOne ==
    GammaqClosedForm /\ pf.x = 0 => pf.ret = [kind |-> "num", v |-> FInt(1)]

\* C6: pgm_lgamma(z) takes the lookup path exactly when z is one of 1..126, and
\* then returns the table's entry at index z - 1, an index of 0..125.
C6_LgammaLookupInTable ==
    pf.fn = "lgamma" /\ pf.pc = "done" =>
        /\ pf.path = "lookup" <=> pf.x \in {FInt(k) : k \in 1..126}
        /\ pf.path = "lookup" =>
              /\ pf.idx \in 0..125
              /\ FInt(pf.idx + 1) = pf.x
              /\ pf.ret = [kind |-> "num", v |-> logfactorial[pf.idx + 1]]

\* C7: erfc(0) is 1 and erfc(x) + erfc(-x) is 2 within the tolerance; for
\* -6.0036 <= x < -eps the value is 2 - erfc(-x) by one nested call that does
\* not call again, for x < -6.0036 it is 2, and for |x| < eps it is exactly 1.
C7_ErfcReflection ==
    pf.fn = "erfc" =>
        /\ Len(pf.frames) <= 2
        /\ pf.nested <= 1
        /\ pf.pc = "done" =>
              /\ pf.ret.kind = "num"
              /\ Abs(pf.ret.v + pgm_erfc(0 - pf.x) - FInt(2)) <= ErfcTol
              /\ pf.x = 0 => pf.ret.v = FInt(1)
              /\ pf.x < erfc_small_val => pf.ret.v = FInt(2) /\ pf.nested = 0
              /\ (pf.x >= erfc_small_val /\ pf.x < 0 - DBL_EPSILON) =>
                    pf.nested = 1 /\ pf.ret.v = FInt(2) - pgm_erfc(0 - pf.x)
              /\ (pf.x >= 0 - DBL_EPSILON /\ pf.x < DBL_EPSILON) =>
                    pf.ret.v = FInt(1) /\ pf.nested = 0
              /\ pf.x >= DBL_EPSILON => pf.nested = 0

\* erfc(-1) was computed from one nested call as 2 - erfc(1), a value strictly
\* between 1 and 2.
C7_Witness ==
    /\ pf.fn = "erfc"
    /\ pf.pc = "done"
    /\ pf.x = 0 - FInt(1)
    /\ pf.nested = 1
    /\ pf.ret.v > FInt(1)
    /\ pf.ret.v < FInt(2)

\* C8: two runs of a sampler entry point with the same arguments, given the
\* same engine values, are at the same place with the same locals after every
\* step, have made the same engine calls and return the same value; and no run
\* reads a field of the config before writing it.
C8_Deterministic ==
    /\ mode = "same" => st[1] = st[2]
    /\ \A r \in Runs : ~st[r].uninit_read

\* Two runs of the z = 0 path returned after an accepted series pass.
C8_Witness ==
    /\ mode = "same"
    /\ Done(1, "devroye") /\ Done(2, "devroye")
    /\ st[1].z = 0
    /\ st[1].decided = "accept"
    /\ st[1].draws.unif >= 2
    /\ st[1].ret > 0

\* C9: the calls with z and with -z derive the same config, are at the same
\* place after every step, make the same engine calls and return the same value.
C9_SignSymmetric ==
    mode = "neg" /\ (\A r \in Runs : st[r].pc # "call") =>
        /\ st[1].cfg.mu = st[2].cfg.mu
        /\ st[1].cfg.k = st[2].cfg.k
        /\ st[1].cfg.ratio = st[2].cfg.ratio
        /\ st[1].pc = st[2].pc
        /\ st[1].draws = st[2].draws
        /\ st[1].ret = st[2].ret

\* C10: on the same candidate x and the same scaled uniform u, a pass of
\* random_jacobi_0's series loop and a pass of random_jacobi's decide the
\* same, so the two loops decide the same at the same index.
C10_SameSeriesMachinery ==
    \A r \in Runs :
        st[r].pc \in {"j0_series", "j_series"} =>
            jacobi_0_pass(st[r].s, st[r].u, st[r].i, st[r].cfg)
                = jacobi_pass(st[r].s, st[r].u, st[r].i, st[r].cfg)

\* The call is inside a series loop of random_jacobi_0 or random_jacobi.
InSeries == mode = "same" /\ \A r \in Runs : st[r].pc \in {"j0_series", "j_series"}

\* C11: a series loop that was entered is left, by accept or by reject, after
\* finitely many coefficients, whatever the candidate x and the uniform u:
\* also when u is 0, when u equals a partial sum, and when the coefficients
\* are 0.
C11_SeriesLoopExits == InSeries ~> ~InSeries

\* A call of random_polyagamma_devroye with z # 0 that is under way or done.
DevroyeNZ(r) == st[r].fn = "devroye" /\ st[r].z # 0 /\ st[r].pc # "call"

\* The fields of the config that are derived from z.
FromZ == {"mu", "k", "half_mu2", "ratio"}

\* C12 as stated: when z # 0 the config is made anew for every component draw:
\* the values derived from z are computed once per component draw, and no
\* field holds a value that an earlier component draw wrote.
C12_ConfigFreshPerDraw ==
    \A r \in Runs :
        DevroyeNZ(r) =>
            /\ st[r].inits = IF st[r].pc = "done" THEN Len(st[r].acc) ELSE Cur(st[r])
            /\ st[r].pc # "done" => \A f \in st[r].cfgw : st[r].cfgat[f] = Cur(st[r])

\* C12, amended: when z # 0 the config is made once per call: mu, k, half_mu2
\* and ratio are computed once, before the first component draw, and every
\* component draw finds them as they were computed; the cached x and log x
\* stay in the config from one component draw to the next, and are written
\* anew in each component draw before they are read.
C12_ConfigOncePerCall ==
    \A r \in Runs :
        DevroyeNZ(r) =>
            /\ st[r].inits = 1
            /\ \A f \in FromZ :
                  /\ f \in st[r].cfgw /\ st[r].cfgat[f] = 1
                  /\ st[r].cfg[f] = devroye_enter([Blank EXCEPT !.z = st[r].z]).cfg[f]
            /\ Len(st[r].acc) >= 1 => {"x", "logx"} \subseteq st[r].cfgw
            /\ ~st[r].stale_read

\* The second component draw of a call with z # 0 is in its series loop: x and
\* log x were written in this draw, mu in the first.
C12_Witness ==
    /\ mode = "same"
    /\ DevroyeNZ(1)
    /\ st[1].pc = "j_series"
    /\ Cur(st[1]) = 2
    /\ st[1].cfgat.x = 2 /\ st[1].cfgat.logx = 2 /\ st[1].cfgat.mu = 1
====
